---- MODULE Spec2Model ----
(***************************************************************************)
(* The two Flask services of the repository:                               *)
(*   variant A  chapter-04-working-with-docker/02-python-flask-app/app.py  *)
(*   variant B  templates/dockerfiles/python/app.py                        *)
(* A process is started with an environment, binds its port in app.run and *)
(* then serves requests, each in a thread of its own (app.run defaults to  *)
(* threaded=True).  A request is received, dispatched through the URL map  *)
(* to a view function, and its response sent.                              *)
(***************************************************************************)
EXTENDS Integers, Sequences, FiniteSets, TLC

VARIABLES
    variant,    \* which app.py the process runs: "A" or "B"
    startEnv,   \* os.environ when the process was started
    env,        \* os.environ now
    srv,        \* "starting", "running", "terminated" (bind failed), "killed"
    bound,      \* the set of ports the server socket is bound to
    slot        \* per client connection: the request in flight and its response

vars == <<variant, startEnv, env, srv, bound, slot>>

----------------------------------------------------------------------------
(* Bounds and input sets *)

NumClients == 2
Clients == 1..NumClients

Variants == {"A", "B"}

\* The value of an environment variable that is not set.
Unset == "<unset>"
EnvironmentValues == {"staging", ""}
AppVersionValues == {"2.3.1"}
Environs ==
    [ENVIRONMENT : EnvironmentValues \cup {Unset},
     APP_VERSION : AppVersionValues \cup {Unset}]

\* The port passed to app.run, and the ports a client may try.
PortA == 5000
PortB == 8000
Ports == {PortA, PortB, 8080}

Methods == {"GET", "HEAD", "OPTIONS", "POST", "PUT", "PATCH", "DELETE"}

\* A request path as the router sees it, split at "/":
\*   <<>> is "/", <<"health">> is "/health", <<"health", "">> is "/health/".
Paths ==
    {<<>>, <<"health">>, <<"nonexistent">>, <<"health", "">>, <<"static", "x">>}

\* What else a request carries: query string, body and a header.
Plain == [query |-> "", body |-> "", header |-> ""]
Loaded == [query |-> "x=1", body |-> "data", header |-> "X-Test: 1"]
Extras == {Plain, Loaded}

\* Every method on every path; a GET also with a query string, body and header.
Requests ==
    {r \in [method : Methods, path : Paths, extras : Extras] :
        r.extras = Plain \/ r.method = "GET"}
GetRequests == {r \in Requests : r.method = "GET" /\ r.extras = Plain}

\* sys.version of the interpreter running variant B.
PythonVersion == "sys.version"

----------------------------------------------------------------------------
(* Responses *)

NoAllow == {}
EmptyBody == [empty |-> TRUE]
ErrorPage(name) == [html |-> name]

Json(status, obj) ==
    [status |-> status, ctype |-> "application/json", body |-> obj,
     allow |-> NoAllow]

\* werkzeug.exceptions.NotFound, the response of a path no rule matches.
NotFound ==
    [status |-> 404, ctype |-> "text/html", body |-> ErrorPage("Not Found"),
     allow |-> NoAllow]

\* werkzeug.exceptions.MethodNotAllowed, carrying the rule's methods.
MethodNotAllowed(methods) ==
    [status |-> 405, ctype |-> "text/html",
     body |-> ErrorPage("Method Not Allowed"), allow |-> methods]

\* Flask.make_default_options_response.
OptionsResponse(methods) ==
    [status |-> 200, ctype |-> "text/html", body |-> EmptyBody,
     allow |-> methods]

----------------------------------------------------------------------------
(* The view functions *)

\* os.getenv(name, default) on the environment e.
getenv_emptyIsUnset(e, name, default) ==
    IF e[name] = Unset \/ e[name] = "" THEN default ELSE e[name]

getenv(e, name, default) ==
    IF e[name] = Unset THEN default ELSE e[name]

\* Variant A: hello().
hello_prodDefault(e) ==
    Json(200, [message |-> "Hello from Docker!",
               environment |-> getenv(e, "ENVIRONMENT", "production"),
               version |-> getenv(e, "APP_VERSION", "1.0.0")])

hello(e) ==
    Json(200, [message |-> "Hello from Docker!",
               environment |-> getenv(e, "ENVIRONMENT", "development"),
               version |-> getenv(e, "APP_VERSION", "1.0.0")])

\* Variant B: index().
index_withVersion(e) ==
    Json(200, [message |-> "Python Docker Template",
               python_version |-> PythonVersion,
               environment |-> getenv(e, "ENVIRONMENT", "development"),
               version |-> getenv(e, "APP_VERSION", "1.0.0")])

index(e) ==
    Json(200, [message |-> "Python Docker Template",
               python_version |-> PythonVersion,
               environment |-> getenv(e, "ENVIRONMENT", "development")])

\* Both variants: health().
health_degraded == Json(503, [status |-> "unhealthy"])

health == Json(200, [status |-> "healthy"])

\* Flask.send_static_file: the repository ships no static folder, so every
\* file name is missing and send_from_directory raises NotFound.
StaticFiles == {}

send_static_file(filename) ==
    IF filename \in StaticFiles
        THEN [status |-> 200, ctype |-> "application/octet-stream",
              body |-> [file |-> filename], allow |-> NoAllow]
        ELSE NotFound

----------------------------------------------------------------------------
(* Routing: app = Flask(__name__) and the @app.route decorators *)

\* The methods of a route registered without a methods argument.
RouteMethods_withPost == {"GET", "POST"}

RouteMethods == {"GET"}

\* werkzeug's Rule adds HEAD to a rule that has GET; Flask.add_url_rule adds
\* OPTIONS (provide_automatic_options).
RuleMethods(methods) ==
    methods \cup (IF "GET" \in methods THEN {"HEAD"} ELSE {}) \cup {"OPTIONS"}

\* A rule: the fixed segments of its URL, whether a <path:...> converter
\* follows them, the endpoint and the methods.
Rule(prefix, converter, endpoint, methods) ==
    [prefix |-> prefix, converter |-> converter, endpoint |-> endpoint,
     methods |-> RuleMethods(methods)]

\* Flask(__name__) has static_folder="static" and so registers
\* "/static/<path:filename>" itself.
StaticRule == Rule(<<"static">>, TRUE, "static", {"GET"})

RootEndpoint(v) == IF v = "A" THEN "hello" ELSE "index"

url_map_catchAll(v) ==
    {StaticRule,
     Rule(<<>>, FALSE, RootEndpoint(v), RouteMethods),
     Rule(<<"health">>, FALSE, "health", RouteMethods),
     Rule(<<>>, TRUE, RootEndpoint(v), RouteMethods)}

url_map(v) ==
    {StaticRule,
     Rule(<<>>, FALSE, RootEndpoint(v), RouteMethods),
     Rule(<<"health">>, FALSE, "health", RouteMethods)}

\* A rule matches a path that is exactly its fixed segments, or, with a
\* converter, its fixed segments followed by a non-empty remainder that does
\* not begin with a slash.
Matches(rule, path) ==
    IF rule.converter
        THEN /\ Len(path) > Len(rule.prefix)
             /\ SubSeq(path, 1, Len(rule.prefix)) = rule.prefix
             /\ path[Len(rule.prefix) + 1] # ""
        ELSE path = rule.prefix

\* The most specific of the matching rules (werkzeug weighs static segments
\* before converters).
BestRule(rules) ==
    CHOOSE x \in rules : \A y \in rules : Len(x.prefix) >= Len(y.prefix)

view_function(endpoint, path, e) ==
    CASE endpoint = "hello"  -> hello(e)
      [] endpoint = "index"  -> index(e)
      [] endpoint = "health" -> health
      [] endpoint = "static" -> send_static_file(SubSeq(path, 2, Len(path)))

\* Flask.dispatch_request: match the URL, then reject the method, answer
\* OPTIONS automatically, or call the view; a HEAD response loses its body.
dispatch_request(v, r, e) ==
    LET matched == {rule \in url_map(v) : Matches(rule, r.path)}
    IN  IF matched = {} THEN NotFound
        ELSE LET rule == BestRule(matched)
             IN  IF r.method \notin rule.methods
                     THEN MethodNotAllowed(rule.methods)
                 ELSE IF r.method = "OPTIONS"
                     THEN OptionsResponse(rule.methods)
                 ELSE LET rv == view_function(rule.endpoint, r.path, e)
                      IN  IF r.method = "HEAD"
                              THEN [rv EXCEPT !.body = EmptyBody]
                              ELSE rv

\* Flask.full_dispatch_request: nothing of the request but its method and
\* path is read (no before_request hook, no request.args, no request.data).
full_dispatch_request_parseBody(v, r, e) ==
    IF r.extras.body # ""
        THEN [status |-> 400, ctype |-> "text/html",
              body |-> ErrorPage("Bad Request"), allow |-> NoAllow]
        ELSE dispatch_request(v, r, e)

full_dispatch_request(v, r, e) == dispatch_request(v, r, e)

----------------------------------------------------------------------------
(* The process *)

\* app.run(host='0.0.0.0', port=...): the port the server socket binds.
ListenPort_any(v) == Ports

ListenPort(v) == IF v = "A" THEN {PortA} ELSE {PortB}

\* The environment os.getenv consults: os.environ at the time of the call.
environ_atStartup == startEnv

environ == env

NoReq == [method |-> "", path |-> <<>>, extras |-> Plain]
NoResp == [status |-> 0, ctype |-> "", body |-> EmptyBody, allow |-> NoAllow]
\* A connection that is not open: no port, no request, no response.
Closed == [st |-> "closed", port |-> 0, req |-> NoReq, resp |-> NoResp]

Init ==
    /\ variant \in Variants
    /\ startEnv \in Environs
    /\ env = startEnv
    /\ srv = "starting"
    /\ bound = {}
    /\ slot = [c \in Clients |-> Closed]

\* __main__: app.run binds the port, or the bind fails and the process exits.
Start ==
    /\ srv = "starting"
    /\ \E free \in BOOLEAN :
          IF free
              THEN srv' = "running" /\ bound' = ListenPort(variant)
              ELSE srv' = "terminated" /\ bound' = {}
    /\ UNCHANGED <<variant, startEnv, env, slot>>

\* A client connects to port p; only a bound port of a running server accepts.
Connect(c, p) ==
    /\ slot[c].st = "closed"
    /\ srv = "running"
    /\ p \in bound
    /\ slot' = [slot EXCEPT ![c] = [Closed EXCEPT !.st = "open", !.port = p]]
    /\ UNCHANGED <<variant, startEnv, env, srv, bound>>

\* The connection's thread reads request r and runs the application on it.
Handle_exitOnError(c, r) ==
    /\ srv = "running"
    /\ slot[c].st = "open"
    /\ LET resp == full_dispatch_request(variant, r, environ)
       IN  /\ slot' = [slot EXCEPT ![c].st = "done", ![c].req = r,
                                   ![c].resp = resp]
           /\ srv' = IF resp.status >= 400 THEN "terminated" ELSE srv
    /\ UNCHANGED <<variant, startEnv, env, bound>>

Handle(c, r) ==
    /\ srv = "running"
    /\ slot[c].st = "open"
    /\ slot' = [slot EXCEPT
                  ![c].st = "done",
                  ![c].req = r,
                  ![c].resp = full_dispatch_request(variant, r, environ)]
    /\ UNCHANGED <<variant, startEnv, env, srv, bound>>

\* The response is written and the connection closed.
Send(c) ==
    /\ srv = "running"
    /\ slot[c].st = "done"
    /\ slot' = [slot EXCEPT ![c] = Closed]
    /\ UNCHANGED <<variant, startEnv, env, srv, bound>>

\* The process is killed from outside; its connections go with it.
Kill ==
    /\ srv = "running"
    /\ srv' = "killed"
    /\ bound' = {}
    /\ slot' = [c \in Clients |-> Closed]
    /\ UNCHANGED <<variant, startEnv, env>>

\* os.environ is changed inside the running process (a test's monkeypatch).
SetEnv(name, value) ==
    /\ srv = "running"
    /\ env[name] # value
    /\ env' = [env EXCEPT ![name] = value]
    /\ UNCHANGED <<variant, startEnv, srv, bound, slot>>

Next ==
    \/ Start
    \/ \E c \in Clients, p \in Ports : Connect(c, p)
    \/ \E c \in Clients, r \in Requests : Handle(c, r)
    \/ \E c \in Clients : Send(c)
    \/ Kill

Spec == Init /\ [][Next]_vars

NextEnv ==
    \/ Start
    \/ \E c \in Clients, p \in Ports : Connect(c, p)
    \/ \E c \in Clients, r \in GetRequests : Handle(c, r)
    \/ \E c \in Clients : Send(c)
    \/ Kill
    \/ \E value \in EnvironmentValues \cup {Unset} : SetEnv("ENVIRONMENT", value)
    \/ \E value \in AppVersionValues \cup {Unset} : SetEnv("APP_VERSION", value)

SpecEnv == Init /\ [][NextEnv]_vars

----------------------------------------------------------------------------
(* Properties *)

Root == <<>>
HealthPath == <<"health">>

Done(c) == slot[c].st = "done"
Answered(c, method, path) ==
    Done(c) /\ slot[c].req.method = method /\ slot[c].req.path = path

\* A step in which the request of client c is handled.
Handles(c) == slot[c].st = "open" /\ slot'[c].st = "done"

\* C1: every GET /health is answered 200 with the body {"status": "healthy"},
\* whatever query string, body or header it carries, whatever the environment
\* variables are and whatever the other connections are doing.
C1_HealthAlwaysHealthy ==
    \A c \in Clients :
        Answered(c, "GET", HealthPath) =>
            /\ slot[c].resp.status = 200
            /\ slot[c].resp.ctype = "application/json"
            /\ slot[c].resp.body = [status |-> "healthy"]

C1_Witness ==
    \E c, d \in Clients :
        /\ c # d
        /\ Answered(c, "GET", HealthPath)
        /\ slot[c].req.extras = Loaded
        /\ startEnv = [ENVIRONMENT |-> "staging", APP_VERSION |-> "2.3.1"]
        /\ Answered(d, "POST", <<"nonexistent">>)

\* C2: with neither ENVIRONMENT nor APP_VERSION set, GET / is answered 200
\* with exactly the keys message, environment and version (variant A) or
\* message, python_version and environment (variant B) and the default values.
C2_DefaultGreeting ==
    \A c \in Clients :
        (/\ Answered(c, "GET", Root)
         /\ startEnv = [ENVIRONMENT |-> Unset, APP_VERSION |-> Unset]) =>
            /\ slot[c].resp.status = 200
            /\ slot[c].resp.ctype = "application/json"
            /\ variant = "A" =>
                   slot[c].resp.body =
                       [message |-> "Hello from Docker!",
                        environment |-> "development",
                        version |-> "1.0.0"]
            /\ variant = "B" =>
                   slot[c].resp.body =
                       [message |-> "Python Docker Template",
                        python_version |-> PythonVersion,
                        environment |-> "development"]

C2_Witness ==
    \E c \in Clients :
        /\ Answered(c, "GET", Root)
        /\ startEnv = [ENVIRONMENT |-> Unset, APP_VERSION |-> Unset]
        /\ variant = "B"
        /\ DOMAIN slot[c].resp.body = {"message", "python_version", "environment"}

\* C3: the environment field of every GET / response is the value ENVIRONMENT
\* was set to before startup, and "development" only stands in for an unset
\* ENVIRONMENT (an ENVIRONMENT set to the empty string is answered as such).
C3_EnvironmentField ==
    \A c \in Clients :
        Answered(c, "GET", Root) =>
            slot[c].resp.body.environment =
                (IF startEnv.ENVIRONMENT = Unset
                     THEN "development"
                     ELSE startEnv.ENVIRONMENT)

C3_Witness ==
    \E c, d \in Clients :
        /\ c # d
        /\ Answered(c, "GET", Root)
        /\ Answered(d, "GET", Root)
        /\ startEnv.ENVIRONMENT = "staging"
        /\ slot[c].resp.body.environment = "staging"
        /\ slot[d].resp.body.environment = "staging"

\* C4: the version field of variant A's GET / response is the value of
\* APP_VERSION (1.0.0 when unset), and no response of variant B depends on
\* APP_VERSION: the same request under any other value of APP_VERSION, all
\* else equal, gets the same response.
C4_VersionOnlyInA ==
    \A c \in Clients :
        /\ (variant = "A" /\ Answered(c, "GET", Root)) =>
               slot[c].resp.body.version =
                   (IF startEnv.APP_VERSION = Unset
                        THEN "1.0.0"
                        ELSE startEnv.APP_VERSION)
        /\ (variant = "B" /\ Done(c)) =>
               \A v \in AppVersionValues \cup {Unset} :
                   full_dispatch_request(
                       "B", slot[c].req, [env EXCEPT !.APP_VERSION = v])
                       = slot[c].resp

C4_Witness ==
    \E c \in Clients :
        /\ variant = "B"
        /\ Answered(c, "GET", Root)
        /\ startEnv.APP_VERSION = "2.3.1"
        /\ "2.3.1" \notin {slot[c].resp.body[k] : k \in DOMAIN slot[c].resp.body}

\* C5 as claimed: a request to any path other than / and /health is answered
\* 404 and leaves the server running.
C5_OtherPathsNotFound ==
    [][\A c \in Clients :
          (Handles(c) /\ slot'[c].req.path \notin {Root, HealthPath}) =>
              /\ slot'[c].resp.status = 404
              /\ srv' = "running"
              /\ bound' = bound]_vars

\* A path under /static/, which Flask(__name__) routes itself.
UnderStatic(path) == Len(path) >= 2 /\ path[1] = "static" /\ path[2] # ""

\* C5 as amended: a request to any path other than /, /health and the paths
\* under /static/ is answered 404; under /static/ a GET or HEAD is answered
\* 404 as well (no static file exists), OPTIONS is answered 200 by the
\* framework and any other method 405; none of these requests stops the
\* server.
C5_UnroutedPathsNotFound ==
    [][\A c \in Clients :
          (Handles(c) /\ slot'[c].req.path \notin {Root, HealthPath}) =>
              /\ srv' = "running"
              /\ bound' = bound
              /\ slot'[c].resp.status =
                     (IF ~UnderStatic(slot'[c].req.path) THEN 404
                      ELSE IF slot'[c].req.method \in {"GET", "HEAD"} THEN 404
                      ELSE IF slot'[c].req.method = "OPTIONS" THEN 200
                      ELSE 405)]_vars

C5_Witness ==
    \E c, d \in Clients :
        /\ Answered(c, "GET", <<"nonexistent">>)
        /\ slot[c].resp.status = 404
        /\ Answered(d, "GET", <<"health", "">>)
        /\ slot[d].resp.status = 404
        /\ srv = "running"

\* C6: a connection is only ever accepted on the configured port, 5000 for
\* variant A and 8000 for variant B, and the server is bound to no other.
C6_OnlyConfiguredPort ==
    LET port == IF variant = "A" THEN 5000 ELSE 8000
    IN  /\ bound \subseteq {port}
        /\ \A c \in Clients : slot[c].st # "closed" => slot[c].port = port

C6_Witness ==
    \E c, d \in Clients :
        /\ variant = "B"
        /\ slot[c].st = "open" /\ slot[c].port = 8000
        /\ slot[d].st = "closed"
        /\ bound = {8000}

\* C7: a GET / response carries the values ENVIRONMENT and (variant A)
\* APP_VERSION have in the process environment when the request is handled,
\* also after they changed since startup or since an earlier request.
C7_ReadOnEveryRequest ==
    [][\A c \in Clients :
          (Handles(c) /\ slot'[c].req.method = "GET"
                      /\ slot'[c].req.path = Root) =>
              /\ slot'[c].resp.body.environment =
                     (IF env.ENVIRONMENT = Unset
                          THEN "development" ELSE env.ENVIRONMENT)
              /\ variant = "A" =>
                     slot'[c].resp.body.version =
                         (IF env.APP_VERSION = Unset
                              THEN "1.0.0" ELSE env.APP_VERSION)]_vars

C7_Witness ==
    \E c, d \in Clients :
        /\ variant = "A"
        /\ startEnv = [ENVIRONMENT |-> Unset, APP_VERSION |-> Unset]
        /\ Answered(c, "GET", Root)
        /\ slot[c].resp.body.environment = "development"
        /\ Answered(d, "GET", Root)
        /\ slot[d].resp.body.environment = "staging"
        /\ slot[d].resp.body.version = "2.3.1"

C9_StartupOutcomes ==
    [][/\ srv = "starting" =>
              /\ srv' \in {"starting", "running", "terminated"}
              /\ \A c \in Clients : slot[c] = Closed /\ slot'[c] = Closed
       /\ srv = "terminated" =>
              /\ srv' = "terminated"
              /\ bound = {}
              /\ \A c \in Clients : slot[c] = Closed /\ slot'[c] = Closed
       /\ (srv = "running" /\ srv' # "running") =>
              /\ srv' = "killed"
              /\ \A c \in Clients : ~Handles(c)]_vars

C9_Witness ==
    /\ srv = "terminated"
    /\ bound = {}
    /\ \A c \in Clients : slot[c] = Closed

\* C10: a POST, PUT, PATCH or DELETE to / or /health is answered 405, never
\* with the greeting or the health body, and the server keeps running.
C10_OtherMethodsNotAllowed ==
    \A c \in Clients :
        (/\ Done(c)
         /\ slot[c].req.method \in {"POST", "PUT", "PATCH", "DELETE"}
         /\ slot[c].req.path \in {Root, HealthPath}) =>
            /\ slot[c].resp.status = 405
            /\ slot[c].resp.ctype # "application/json"
            /\ slot[c].resp.allow = {"GET", "HEAD", "OPTIONS"}
            /\ srv = "running"

C10_Witness ==
    \E c, d \in Clients :
        /\ Answered(c, "POST", HealthPath)
        /\ slot[c].resp.status = 405
        /\ Answered(d, "DELETE", Root)
        /\ slot[d].resp.status = 405

====
